---------------------------- MODULE Spec2Model ----------------------------
(***************************************************************************)
(* The synthetic workflow recipe engine of WfCommons                       *)
(* (wfcommons/wfgen/abstract_recipe.py, class WorkflowRecipe) and the      *)
(* roots()/leaves() queries of an Instance                                 *)
(* (tests/unit/wfinstances/test_instances.py).                             *)
(*                                                                         *)
(* Strings are sequences of one-character strings, so that formatting      *)
(* ("{}_{:08d}"), os.path.splitext and the "'.' in name" test are computed *)
(* character by character.  Factors are counted in halves (1 is 0.5, 2 is  *)
(* 1.0, 4 is 2.0), so int(factor * sample) is (factor * sample) \div 2.    *)
(* Of a Task the model keeps the fields the engine reads again: name and   *)
(* category.                                                               *)
(***************************************************************************)
EXTENDS Integers, Sequences, FiniteSets, TLC

(* ------------------------------ bounds --------------------------------- *)
\* how many task names one engine hands out
MaxTasks == 2
\* how many files (uuid4 tokens) one engine generates
MaxUuid == 5
\* frames of _generate_task_files the interpreter allows before RecursionError
RecursionLimit == 4
\* how many tasks an instance file lists
MaxInstanceTasks == 2

(* ---------------------------- characters ------------------------------- *)
DigitChars == <<"0", "1", "2", "3", "4", "5", "6", "7", "8", "9">>

RECURSIVE Digits(_)
\* str(n) for n >= 0
Digits(n) ==
    IF n < 10 THEN <<DigitChars[n + 1]>>
    ELSE Digits(n \div 10) \o <<DigitChars[(n % 10) + 1]>>

RECURSIVE Zeros(_)
Zeros(k) == IF k <= 0 THEN <<>> ELSE <<"0">> \o Zeros(k - 1)

\* the field width of "{:08d}"
NameWidth == 8

\* "{:08d}".format(n): at least NameWidth characters, zero-filled on the left
Format08d(n) ==
    LET d == Digits(n)
    IN  IF Len(d) >= NameWidth THEN d ELSE Zeros(NameWidth - Len(d)) \o d

\* the set of elements of a sequence
Range(s) == {s[i] : i \in 1..Len(s)}

\* the index of the last occurrence of c in s, 0 when there is none (str.rfind + 1)
RFind(s, c) ==
    LET hits == {i \in 1..Len(s) : s[i] = c}
    IN  IF hits = {} THEN 0 ELSE CHOOSE i \in hits : \A j \in hits : j <= i

\* os.path.splitext(p)[1]: from the last dot of the last path component,
\* unless that component has only dots before it
SplitExt(p) ==
    LET sepIndex == RFind(p, "/")
        dotIndex == RFind(p, ".")
    IN  IF dotIndex > sepIndex
             /\ \E k \in (sepIndex + 1)..(dotIndex - 1) : p[k] # "."
        THEN SubSeq(p, dotIndex, Len(p))
        ELSE <<>>

\* path.splitext(f.name)[1] if '.' in f.name else f.name
ExtensionOf(name) == IF "." \in Range(name) THEN SplitExt(name) ELSE name

\* str(uuid.uuid4()): a token that was never handed out before and holds no dot
Uuid4(k) == <<"u">> \o Digits(k)

(* ------------------------------ recipe --------------------------------- *)
\* One concrete _workflow_recipe(): category "a" writes a dotted extension
\* and reads nothing; category "b" writes a literal file name without a dot
\* and reads both the extension "a" writes and the literal name "b" writes.
\* A table is a sequence of entries, in the dict's iteration order.
TXT == <<".", "t">>
MARK == <<"m">>

WorkflowRecipeTable ==
    [a |-> [output |-> <<[ext |-> TXT, min |-> 3, max |-> 4]>>,
            input  |-> <<>>],
     b |-> [output |-> <<[ext |-> MARK, min |-> 5, max |-> 5]>>,
            input  |-> <<[ext |-> TXT, min |-> 7, max |-> 7],
                         [ext |-> MARK, min |-> 9, max |-> 9]>>]]

Categories == DOMAIN WorkflowRecipeTable

\* the category names callers pass; "x" is no key of the recipe
CategoryNames == Categories \cup {"x"}

\* generate_rvs(distribution, min, max): the k-th draw of the generator, a
\* value inside [min, max] that changes from one draw to the next
GenerateRvs(k, min, max) == min + (k % (max - min + 1))

\* the factors callers pass to the constructor, in halves: runtime factors
\* -0.5, 0.0, 1.0; input file size factors 0.0, 0.5; output file size factors
\* -1.0, 2.0
RuntimeFactors == {-1, 0, 2}
InputFactors == {0, 1}
OutputFactors == {-2, 4}

VARIABLES
    status,                  \* "new", "ready", "rejected" (ValueError), "aborted" (RecursionError)
    attrs,                   \* the attributes assigned on self
    runtime_factor,
    input_file_size_factor,
    output_file_size_factor,
    tasks_files,             \* task id -> sequence of File
    tasks_files_names,       \* task id -> sequence of names
    task_id_counter,
    tasks_map,               \* task id -> Task
    tasks_children,
    tasks_parents,           \* task id -> sequence of task ids
    tasks_output_files,      \* task id -> sequence of File (the memo)
    uuid_counter,            \* tokens uuid4 has handed out
    task_names,              \* the names _generate_task_name returned, in order
    parent_inputs,           \* <<child, parent, name, size>> of every INPUT file appended at lines 215-220
    last,                    \* the most recent call: its arguments and what it returned or raised
    instance                 \* the Instance under query (SpecInstance)

vars == <<status, attrs, runtime_factor, input_file_size_factor, output_file_size_factor,
          tasks_files, tasks_files_names, task_id_counter, tasks_map, tasks_children,
          tasks_parents, tasks_output_files, uuid_counter, task_names, parent_inputs,
          last, instance>>

engine_vars == <<status, attrs, runtime_factor, input_file_size_factor,
                 output_file_size_factor, tasks_files, tasks_files_names, task_id_counter,
                 tasks_map, tasks_children, tasks_parents, tasks_output_files,
                 uuid_counter, task_names, parent_inputs, last>>

EmptyMap == <<>>

AllAttrs == {"logger", "name", "data_footprint", "num_tasks", "runtime_factor",
             "input_file_size_factor", "output_file_size_factor", "workflow_recipe",
             "tasks_files", "tasks_files_names", "task_id_counter", "tasks_map",
             "tasks_children", "tasks_parents", "tasks_output_files"}

NoCall == [op |-> "none"]
NoInstance == [tasks |-> <<>>, queried |-> FALSE, roots |-> {}, leaves |-> {}]

\* a WorkflowRecipe object on which __init__ has not run yet
Init ==
    /\ status = "new"
    /\ attrs = {}
    /\ runtime_factor = 0
    /\ input_file_size_factor = 0
    /\ output_file_size_factor = 0
    /\ tasks_files = EmptyMap
    /\ tasks_files_names = EmptyMap
    /\ task_id_counter = 0
    /\ tasks_map = EmptyMap
    /\ tasks_children = EmptyMap
    /\ tasks_parents = EmptyMap
    /\ tasks_output_files = EmptyMap
    /\ uuid_counter = 0
    /\ task_names = <<>>
    /\ parent_inputs = {}
    /\ last = NoCall
    /\ instance = NoInstance

\* f with key k set to v, the key added when it is new (a dict store)
Store(f, k, v) == [x \in (DOMAIN f) \cup {k} |-> IF x = k THEN v ELSE f[x]]

(* --------------------------- __init__ ---------------------------------- *)
\* the sanity checks with < in place of <=
InvalidFactorsStrict(rf, inf, outf) == rf < 0 \/ inf < 0 \/ outf < 0

\* the three sanity checks of __init__
InvalidFactors(rf, inf, outf) == rf <= 0 \/ inf <= 0 \/ outf <= 0

Construct(rf, inf, outf) ==
    /\ status = "new"
    /\ IF InvalidFactors(rf, inf, outf)
       THEN /\ status' = "rejected"
            /\ last' = [op |-> "init", args |-> <<rf, inf, outf>>, raised |-> "ValueError"]
            /\ UNCHANGED <<attrs, runtime_factor, input_file_size_factor,
                           output_file_size_factor, tasks_files, tasks_files_names,
                           task_id_counter, tasks_map, tasks_children, tasks_parents,
                           tasks_output_files>>
       ELSE /\ status' = "ready"
            /\ last' = [op |-> "init", args |-> <<rf, inf, outf>>, raised |-> "none"]
            /\ attrs' = AllAttrs
            /\ runtime_factor' = rf
            /\ input_file_size_factor' = inf
            /\ output_file_size_factor' = outf
            /\ tasks_files' = EmptyMap
            /\ tasks_files_names' = EmptyMap
            /\ task_id_counter' = 1
            /\ tasks_map' = EmptyMap
            /\ tasks_children' = EmptyMap
            /\ tasks_parents' = EmptyMap
            /\ tasks_output_files' = EmptyMap
    /\ UNCHANGED <<uuid_counter, task_names, parent_inputs, instance>>

(* ----------------------- _generate_task_name --------------------------- *)
\* the name without the zero fill
TaskNameUnpadded(prefix, counter) == <<prefix>> \o <<"_">> \o Digits(counter)

\* "{}_{:08d}".format(prefix, counter)
TaskName(prefix, counter) == <<prefix>> \o <<"_">> \o Format08d(counter)

GenerateTaskName(prefix) ==
    /\ status = "ready"
    /\ Len(task_names) < MaxTasks
    /\ task_id_counter' = task_id_counter + 1
    /\ task_names' = Append(task_names, TaskName(prefix, task_id_counter))
    /\ last' = [op |-> "generate_task_name", prefix |-> prefix,
                ret |-> TaskName(prefix, task_id_counter), raised |-> "none"]
    /\ UNCHANGED <<status, attrs, runtime_factor, input_file_size_factor,
                   output_file_size_factor, tasks_files, tasks_files_names, tasks_map,
                   tasks_children, tasks_parents, tasks_output_files, uuid_counter,
                   parent_inputs, instance>>

(* -------------------------- _generate_task ----------------------------- *)
\* task_id is a name the engine handed out and that is not registered yet
\* (distinct ids are the caller's duty); callers name a task after its
\* category, or pass a category the recipe does not have
GenerateTask(task_name, task_id) ==
    /\ status = "ready"
    /\ task_id \in Range(task_names)
    /\ task_id[1] = task_name \/ task_name \notin Categories
    /\ task_id \notin DOMAIN tasks_map
    /\ IF task_name \notin Categories
       THEN /\ last' = [op |-> "generate_task", raised |-> "KeyError"]
            /\ UNCHANGED <<tasks_files, tasks_files_names, tasks_map>>
       ELSE /\ tasks_files' = Store(tasks_files, task_id, <<>>)
            /\ tasks_files_names' = Store(tasks_files_names, task_id, <<>>)
            /\ tasks_map' = Store(tasks_map, task_id,
                                  [name |-> task_id, category |-> task_name])
            /\ last' = [op |-> "generate_task", raised |-> "none"]
    /\ UNCHANGED <<status, attrs, runtime_factor, input_file_size_factor,
                   output_file_size_factor, task_id_counter, tasks_children,
                   tasks_parents, tasks_output_files, uuid_counter, task_names,
                   parent_inputs, instance>>

(* -------------------------- _generate_file ----------------------------- *)
INPUT == "input"
OUTPUT == "output"

\* int(factor * sample), the factor counted in halves
ScaledSize(factor, sample) == (factor * sample) \div 2

\* the file of the k-th token: its size drawn from the entry's distribution
\* and scaled by the factor of its link
GenerateFile(k, entry, link) ==
    [name |-> Uuid4(k) \o entry.ext,
     link |-> link,
     size |-> ScaledSize(IF link = INPUT THEN input_file_size_factor
                         ELSE output_file_size_factor,
                         GenerateRvs(k, entry.min, entry.max))]

(* -------------------------- _generate_files ---------------------------- *)
\* The engine state one call threads through its helpers:
\*   files, names, memo   tasks_files, tasks_files_names, tasks_output_files
\*   uuid                 tokens handed out
\*   pin                  parent_inputs
\*   raised               "none" or the exception that is propagating
\*   depth                the deepest frame of _generate_task_files so far

\* lines 243-246: the files of the task that have the link
FilesOfLink(files, link) == SelectSeq(files, LAMBDA f : f.link = link)

\* lines 243-246: the extension each of them contributes
ExtensionList(files) == [i \in 1..Len(files) |-> ExtensionOf(files[i].name)]

\* line 249: extension not in extension_list
ExtensionMissing(extension, extension_list) == extension \notin Range(extension_list)

RECURSIVE GenerateMissing(_, _, _, _, _, _, _)
\* lines 248-253: the loop over the recipe's keys, from key i on
GenerateMissing(st, task_id, recipe, link, extension_list, files_list, i) ==
    IF i > Len(recipe) THEN [st |-> st, ret |-> files_list]
    ELSE IF ExtensionMissing(recipe[i].ext, extension_list)
         THEN LET file == GenerateFile(st.uuid + 1, recipe[i], link)
                  st2 == [st EXCEPT !.uuid = @ + 1,
                                    !.files[task_id] = Append(@, file),
                                    !.names[task_id] = Append(@, file.name)]
              IN  GenerateMissing(st2, task_id, recipe, link, extension_list,
                                  Append(files_list, file), i + 1)
         ELSE GenerateMissing(st, task_id, recipe, link, extension_list,
                              files_list, i + 1)

GenerateFiles(st, task_id, recipe, link) ==
    LET files_list == FilesOfLink(st.files[task_id], link)
    IN  GenerateMissing(st, task_id, recipe, link, ExtensionList(files_list),
                        files_list, 1)

(* ------------------------ _generate_task_files ------------------------- *)
\* line 197: the memo test
Memoized(st, name) == name \in DOMAIN st.memo

\* the dedup test made on the extension instead of the name
NameSeenByExtension(st, task, name) ==
    ExtensionOf(name) \in {ExtensionOf(st.names[task][i]) : i \in 1..Len(st.names[task])}

\* the dedup test left out
NameNeverSeen(st, task, name) == FALSE

\* line 216: the name test of the dedup
NameSeen(st, task, name) == name \in Range(st.names[task])

\* the copy with the size left at zero
InputCopyNoSize(f) == [name |-> f.name, link |-> INPUT, size |-> 0]

\* lines 217-219: the copy of a parent's output file that the child lists
InputCopy(f) == [name |-> f.name, link |-> INPUT, size |-> f.size]

RECURSIVE AppendInputs(_, _, _, _)
\* lines 215-220: input_files is a sequence of [from, file], from entry i on
AppendInputs(st, task, input_files, i) ==
    IF i > Len(input_files) THEN st
    ELSE LET f == input_files[i].file
             copy == InputCopy(f)
         IN  IF ~NameSeen(st, task, f.name)
             THEN AppendInputs(
                      [st EXCEPT !.files[task] = Append(@, copy),
                                 !.names[task] = Append(@, f.name),
                                 !.pin = @ \cup {<<task, input_files[i].from,
                                                  copy.name, copy.size>>}],
                      task, input_files, i + 1)
             ELSE AppendInputs(st, task, input_files, i + 1)

\* the loop asking for the files of the task itself
ParentToResolveSelf(task, parents, i) == task

\* line 210: the task whose files the loop over the parents asks for
ParentToResolve(task, parents, i) == parents[i]

RECURSIVE GenerateTaskFiles(_, _, _)
RECURSIVE ResolveParents(_, _, _, _, _, _)

\* lines 209-213: the loop over the parents, from parent i on; a raise in a
\* parent's call ends the loop and propagates
ResolveParents(st, task, parents, i, input_files, depth) ==
    IF i > Len(parents) THEN [st |-> st, ret |-> input_files]
    ELSE LET p == ParentToResolve(task, parents, i)
             r == GenerateTaskFiles(st, p, depth + 1)
         IN  IF r.st.raised # "none" THEN [st |-> r.st, ret |-> input_files]
             ELSE ResolveParents(
                      [r.st EXCEPT !.memo = Store(@, p, r.ret)],
                      task, parents, i + 1,
                      input_files \o [k \in 1..Len(r.ret) |-> [from |-> p, file |-> r.ret[k]]],
                      depth)

\* lines 197-225; depth is the number of frames of this method on the stack
GenerateTaskFiles(st, task, depth) ==
    IF depth > RecursionLimit
    THEN [st |-> [st EXCEPT !.raised = "RecursionError"], ret |-> <<>>]
    ELSE LET st0 == [st EXCEPT !.depth = IF depth > @ THEN depth ELSE @]
         IN  IF Memoized(st0, task)
             THEN [st |-> st0, ret |-> st0.memo[task]]
             ELSE LET task_recipe == WorkflowRecipeTable[tasks_map[task].category]
                      out == GenerateFiles(st0, task, task_recipe.output, OUTPUT)
                      res == IF task \in DOMAIN tasks_parents
                             THEN ResolveParents(out.st, task, tasks_parents[task], 1,
                                                 <<>>, depth)
                             ELSE [st |-> out.st, ret |-> <<>>]
                  IN  IF res.st.raised # "none"
                      THEN [st |-> res.st, ret |-> <<>>]
                      ELSE [st |-> GenerateFiles(AppendInputs(res.st, task, res.ret, 1),
                                                 task, task_recipe.input, INPUT).st,
                            ret |-> out.ret]

GenerateTaskFilesCall(task) ==
    /\ status = "ready"
    /\ task \in DOMAIN tasks_map
    /\ LET r == GenerateTaskFiles([files |-> tasks_files, names |-> tasks_files_names,
                                   memo |-> tasks_output_files, uuid |-> uuid_counter,
                                   pin |-> parent_inputs, raised |-> "none", depth |-> 0],
                                  task, 1)
       IN  /\ r.st.uuid <= MaxUuid
           /\ tasks_files' = r.st.files
           /\ tasks_files_names' = r.st.names
           /\ tasks_output_files' = r.st.memo
           /\ uuid_counter' = r.st.uuid
           /\ parent_inputs' = r.st.pin
           /\ status' = IF r.st.raised = "none" THEN "ready" ELSE "aborted"
           /\ last' = [op |-> "generate_task_files", task |-> task, ret |-> r.ret,
                       raised |-> r.st.raised, depth |-> r.st.depth]
    /\ UNCHANGED <<attrs, runtime_factor, input_file_size_factor, output_file_size_factor,
                   task_id_counter, tasks_map, tasks_children, tasks_parents, task_names,
                   instance>>

(* ------------------- the assembler's parent map ------------------------ *)
\* the position of a task name in the order the engine handed the names out
NameIndex(x) == CHOOSE i \in 1..Len(task_names) : task_names[i] = x

\* the parent lists the assembler writes: one parent, or two (the same one
\* twice included), listed in the order the tasks were named
ParentLists(S) ==
    {<<p>> : p \in S} \cup {pq \in S \X S : NameIndex(pq[1]) <= NameIndex(pq[2])}

\* self.tasks_parents[child] = parents, written by the assembler once per
\* task, between registered tasks and before the child's files are asked for
SetParents(child, parents) ==
    /\ status = "ready"
    /\ child \in DOMAIN tasks_map
    /\ child \notin DOMAIN tasks_parents
    /\ tasks_files[child] = <<>>
    /\ Range(parents) \subseteq DOMAIN tasks_map
    /\ tasks_parents' = Store(tasks_parents, child, parents)
    /\ last' = [op |-> "set_parents", raised |-> "none"]
    /\ UNCHANGED <<status, attrs, runtime_factor, input_file_size_factor,
                   output_file_size_factor, tasks_files, tasks_files_names,
                   task_id_counter, tasks_map, tasks_children, tasks_output_files,
                   uuid_counter, task_names, parent_inputs, instance>>

(* ------------------------------ Instance ------------------------------- *)
\* The reader of an instance file: of each task of workflow.specification.tasks
\* it keeps id, parents and children.  The dependency edges come from the
\* parents lists; the children field is not consulted.
TaskIds == {"task_01", "task_02", "task_03"}

\* the parents and children lists the instance files under test carry
IdLists == {<<>>} \cup {<<x>> : x \in TaskIds} \cup {<<"task_02", "task_03">>}

InstanceTask == [id : TaskIds, parents : IdLists, children : IdLists]

\* the task lists of instance files: distinct ids, at least one task
InstanceTaskLists ==
    {ts \in UNION {[1..n -> InstanceTask] : n \in 1..MaxInstanceTasks} :
        \A i \in 1..Len(ts), j \in 1..Len(ts) : i # j => ts[i].id # ts[j].id}

\* the edges (parent, child) between tasks of the instance
DependencyEdges(tasks) ==
    {e \in Range([i \in 1..Len(tasks) |-> tasks[i].id]) \X
            Range([i \in 1..Len(tasks) |-> tasks[i].id]) :
        \E j \in 1..Len(tasks) : tasks[j].id = e[2] /\ e[1] \in Range(tasks[j].parents)}

\* roots(): the tasks with no parents
Roots(tasks) == {tasks[i].id : i \in {k \in 1..Len(tasks) : tasks[k].parents = <<>>}}

\* leaves() read off the children field
LeavesByChildrenField(tasks) ==
    {tasks[i].id : i \in {k \in 1..Len(tasks) : tasks[k].children = <<>>}}

\* leaves(): the tasks that are no task's parent
Leaves(tasks) ==
    {tasks[i].id : i \in {k \in 1..Len(tasks) :
                            \A e \in DependencyEdges(tasks) : e[1] # tasks[k].id}}

\* Instance(path) on a file listing the tasks ts
InitInstance ==
    /\ status = "new"
    /\ attrs = {}
    /\ runtime_factor = 0
    /\ input_file_size_factor = 0
    /\ output_file_size_factor = 0
    /\ tasks_files = EmptyMap
    /\ tasks_files_names = EmptyMap
    /\ task_id_counter = 0
    /\ tasks_map = EmptyMap
    /\ tasks_children = EmptyMap
    /\ tasks_parents = EmptyMap
    /\ tasks_output_files = EmptyMap
    /\ uuid_counter = 0
    /\ task_names = <<>>
    /\ parent_inputs = {}
    /\ last = NoCall
    /\ \E ts \in InstanceTaskLists :
           instance = [tasks |-> ts, queried |-> FALSE, roots |-> {}, leaves |-> {}]

\* instance.roots() and instance.leaves()
QueryInstance ==
    /\ ~instance.queried
    /\ instance' = [instance EXCEPT !.queried = TRUE,
                                    !.roots = Roots(instance.tasks),
                                    !.leaves = Leaves(instance.tasks)]
    /\ UNCHANGED engine_vars

NextInstance == QueryInstance

SpecInstance == InitInstance /\ [][NextInstance]_vars

Next ==
    \/ \E rf \in RuntimeFactors, inf \in InputFactors, outf \in OutputFactors :
           Construct(rf, inf, outf)
    \/ \E prefix \in Categories : GenerateTaskName(prefix)
    \/ \E c \in CategoryNames, t \in Range(task_names) : GenerateTask(c, t)
    \/ \E t \in DOMAIN tasks_map, ps \in ParentLists(DOMAIN tasks_map) :
           SetParents(t, ps)
    \/ \E t \in DOMAIN tasks_map : GenerateTaskFilesCall(t)

Spec == Init /\ [][Next]_vars
(* ======================= properties of the engine ====================== *)
Registered == DOMAIN tasks_map

ParentsOf(t) == IF t \in DOMAIN tasks_parents THEN Range(tasks_parents[t]) ELSE {}

RECURSIVE Ancestors(_, _)
\* the tasks reachable from the set S through one or more parent edges
Ancestors(S, seen) ==
    LET step == UNION {ParentsOf(t) : t \in S}
    IN  IF step \subseteq seen THEN seen ELSE Ancestors(step \ seen, seen \cup step)

ReachPlus(t) == Ancestors({t}, {})
Reach(t) == {t} \cup ReachPlus(t)
OnCycle(t) == t \in ReachPlus(t)
\* the tasks that lie on a cycle through t
CycleOf(t) == {d \in ReachPlus(t) : t \in ReachPlus(d)}
Acyclic == \A t \in Registered : ~OnCycle(t)

RECURSIVE Height(_)
\* the number of tasks on the longest parent chain that starts at t (t not above a cycle)
Height(t) ==
    IF ParentsOf(t) = {} THEN 1
    ELSE 1 + (CHOOSE h \in {Height(p) : p \in ParentsOf(t)} :
                  \A p \in ParentsOf(t) : Height(p) <= h)

NameSize(files) == [i \in 1..Len(files) |-> <<files[i].name, files[i].size>>]
OutputsOf(t) == FilesOfLink(tasks_files[t], OUTPUT)
InputsOf(t) == FilesOfLink(tasks_files[t], INPUT)
Names(files) == {files[i].name : i \in 1..Len(files)}
OutputKeys(t) == WorkflowRecipeTable[tasks_map[t].category].output
InputKeys(t) == WorkflowRecipeTable[tasks_map[t].category].input

\* what child received from parent by parent resolution
ReceivedFrom(child, parent) ==
    {<<e[3], e[4]>> : e \in {x \in parent_inputs : x[1] = child /\ x[2] = parent}}

\* a step that is a completed call _generate_task_files(t)
FilesCallReturned(t) ==
    /\ last'.op = "generate_task_files"
    /\ last'.task = t
    /\ last'.raised = "none"

\* name is '<token>e': a uuid4 token followed by the recipe key e
IsToken(s) ==
    /\ Len(s) >= 2
    /\ s[1] = "u"
    /\ \A i \in 2..Len(s) : s[i] \in Range(DigitChars)
GeneratedFor(name, e) ==
    /\ Len(name) > Len(e)
    /\ SubSeq(name, Len(name) - Len(e) + 1, Len(name)) = e
    /\ IsToken(SubSeq(name, 1, Len(name) - Len(e)))

\* C1: calling _generate_task_files twice in a row on the same task returns
\* the second time a list equal by name and size to the first one, and the
\* second call leaves the task's file list as it was.
C1_IdempotentSecondCall ==
    [][\A t \in Registered :
          (/\ last.op = "generate_task_files"
           /\ last.task = t
           /\ last.raised = "none"
           /\ FilesCallReturned(t))
          => /\ NameSize(last'.ret) = NameSize(last.ret)
             /\ tasks_files'[t] = tasks_files[t]]_vars

\* C2: with an acyclic parent map, a task that is some task's parent never
\* holds more OUTPUT files than its recipe output table has keys, and all of
\* its children that resolved it received the same (name, size) pairs.
C2_ParentOutputsGeneratedOnce ==
    Acyclic =>
        \A p \in Registered :
            (\E c \in Registered : p \in ParentsOf(c)) =>
                /\ Len(OutputsOf(p)) <= Len(OutputKeys(p))
                /\ \A c1 \in Registered, c2 \in Registered :
                       (ReceivedFrom(c1, p) # {} /\ ReceivedFrom(c2, p) # {})
                       => ReceivedFrom(c1, p) = ReceivedFrom(c2, p)

\* C3: with an acyclic parent map, every INPUT file a child obtained from a
\* parent by parent resolution is listed by the child with that name and
\* size, comes from one of its declared parents, and that parent's OUTPUT
\* files hold a file of the same name and the same size.
C3_DagConsistency ==
    Acyclic =>
        \A e \in parent_inputs :
            /\ e[2] \in ParentsOf(e[1])
            /\ \E f \in Range(InputsOf(e[1])) : f.name = e[3] /\ f.size = e[4]
            /\ \E g \in Range(OutputsOf(e[2])) : g.name = e[3] /\ g.size = e[4]

C3_Witness ==
    /\ Acyclic
    /\ \E e \in parent_inputs : e[4] > 0

\* C4 as stated: after _generate_task_files(C) completes, the names of the
\* OUTPUT files of every parent of C are a strict subset of the names of
\* C's INPUT files, each listed once.
C4_ParentOutputsStrictSubset ==
    (last.op = "generate_task_files" /\ last.raised = "none") =>
        \A p \in ParentsOf(last.task) :
            /\ Names(OutputsOf(p)) \subseteq Names(InputsOf(last.task))
            /\ Names(OutputsOf(p)) # Names(InputsOf(last.task))
            /\ \A n \in Names(OutputsOf(p)) :
                   Cardinality({i \in 1..Len(InputsOf(last.task)) :
                                   InputsOf(last.task)[i].name = n}) = 1

\* C4 amended: after _generate_task_files(C) completes, the names of the
\* OUTPUT files of every parent of C are a subset (not necessarily a strict
\* one) of the names of C's INPUT files, each listed exactly once.
C4_ParentOutputsSubset ==
    (last.op = "generate_task_files" /\ last.raised = "none") =>
        \A p \in ParentsOf(last.task) :
            /\ Names(OutputsOf(p)) \subseteq Names(InputsOf(last.task))
            /\ \A n \in Names(OutputsOf(p)) :
                   Cardinality({i \in 1..Len(InputsOf(last.task)) :
                                   InputsOf(last.task)[i].name = n}) = 1

\* a child whose parent list names the same parent twice has returned
C4_Witness ==
    /\ last.op = "generate_task_files"
    /\ last.raised = "none"
    /\ last.task \in DOMAIN tasks_parents
    /\ Len(tasks_parents[last.task]) = 2
    /\ tasks_parents[last.task][1] = tasks_parents[last.task][2]
    /\ Names(OutputsOf(tasks_parents[last.task][1])) # {}

\* C5: the INPUT files of every task have pairwise distinct names.
C5_NoDuplicateInputNames ==
    \A t \in Registered :
        \A i \in 1..Len(InputsOf(t)), j \in 1..Len(InputsOf(t)) :
            i # j => InputsOf(t)[i].name # InputsOf(t)[j].name

\* a task listing the same parent twice holds several INPUT files after
\* being asked for its files more than once
C5_Witness ==
    \E t \in DOMAIN tasks_parents :
        /\ Len(tasks_parents[t]) = 2
        /\ tasks_parents[t][1] = tasks_parents[t][2]
        /\ Len(InputsOf(t)) >= 2
        /\ Len(OutputsOf(t)) >= 2

\* the number a sequence of digit characters writes
RECURSIVE DigitsValue(_)
DigitsValue(d) ==
    IF d = <<>> THEN 0
    ELSE 10 * DigitsValue(SubSeq(d, 1, Len(d) - 1))
         + ((CHOOSE k \in 1..10 : DigitChars[k] = d[Len(d)]) - 1)

\* C6: the i-th name the engine hands out is '<prefix>_<n>' with n written
\* in exactly 8 digits and equal to i (so the suffixes start at 1 and grow
\* strictly), the counter is one past the names handed out, and no two names
\* are equal.
C6_TaskNames ==
    /\ status = "ready" => task_id_counter = Len(task_names) + 1
    /\ \A i \in 1..Len(task_names) :
           LET n == task_names[i]
               suffix == SubSeq(n, Len(n) - NameWidth + 1, Len(n))
           IN  /\ Len(n) = NameWidth + 2
               /\ n[1] \in Categories
               /\ n[2] = "_"
               /\ \A k \in 1..Len(suffix) : suffix[k] \in Range(DigitChars)
               /\ DigitsValue(suffix) = i
    /\ \A i \in 1..Len(task_names), j \in 1..Len(task_names) :
           i # j => task_names[i] # task_names[j]

\* two names were handed out for the same prefix
C6_Witness ==
    /\ Len(task_names) >= 2
    /\ task_names[1][1] = task_names[2][1]

\* C7: right after __init__, the construction was rejected exactly when one
\* of the three factors is <= 0; a rejected one assigned no attribute, an
\* accepted one holds the factors, empty maps and task_id_counter = 1.
C7_Construction ==
    last.op = "init" =>
        /\ status \in {"rejected", "ready"}
        /\ status = "rejected" <=> \E k \in 1..3 : last.args[k] <= 0
        /\ status = "rejected" <=> last.raised = "ValueError"
        /\ status = "rejected" =>
               /\ attrs = {}
               /\ task_id_counter = 0
               /\ tasks_map = EmptyMap /\ tasks_files = EmptyMap
               /\ tasks_files_names = EmptyMap /\ tasks_parents = EmptyMap
               /\ tasks_output_files = EmptyMap
        /\ status = "ready" =>
               /\ attrs = AllAttrs
               /\ <<runtime_factor, input_file_size_factor, output_file_size_factor>>
                      = last.args
               /\ task_id_counter = 1
               /\ tasks_map = EmptyMap /\ tasks_files = EmptyMap
               /\ tasks_files_names = EmptyMap /\ tasks_parents = EmptyMap
               /\ tasks_output_files = EmptyMap

\* a construction rejected for a factor of exactly 0.0, the others positive
C7_Witness ==
    /\ last.op = "init"
    /\ status = "rejected"
    /\ last.args[1] > 0 /\ last.args[2] = 0 /\ last.args[3] > 0

\* C8: for an instance listing a single task with an empty parents list,
\* roots() and leaves() return the same result, the set holding that task.
C8_RootsEqualLeaves ==
    (/\ instance.queried
     /\ Len(instance.tasks) = 1
     /\ instance.tasks[1].parents = <<>>)
    => /\ instance.roots = instance.leaves
       /\ instance.roots = {instance.tasks[1].id}

\* the test's instance: task_01, children task_02 and task_03, no parents
C8_Witness ==
    /\ instance.queried
    /\ instance.tasks = <<[id |-> "task_01", parents |-> <<>>,
                           children |-> <<"task_02", "task_03">>]>>

\* C9: a call _generate_task_files(t) returns, its frames never deeper than
\* the longest parent chain from t, when no cycle is reachable from t; it
\* does not return (the recursion runs until the interpreter raises
\* RecursionError) when a cycle none of whose tasks is memoized is reachable
\* from t.
C9_Termination ==
    [][\A t \in Registered :
          (last'.op = "generate_task_files" /\ last'.task = t)
          => /\ (\A c \in Reach(t) : ~OnCycle(c))
                    => /\ last'.raised = "none"
                       /\ last'.depth <= Height(t)
             /\ (\E c \in Reach(t) :
                     /\ OnCycle(c)
                     /\ \A d \in CycleOf(c) : d \notin DOMAIN tasks_output_files)
                    => /\ last'.raised = "RecursionError"
                       /\ last'.depth = RecursionLimit]_vars

\* a call on a chain of two tasks has returned from its second frame
C9_Witness ==
    /\ last.op = "generate_task_files"
    /\ last.raised = "none"
    /\ last.depth = 2
    /\ Acyclic

\* C10: each call of _generate_files made by a completed
\* _generate_task_files(t) generates, for every key e of its recipe table, no
\* file when the task already holds a file of that link generated for e (or,
\* for INPUT, copied from a parent output generated for e), and exactly one
\* file '<token>e' otherwise; the files the task held stay as they were.
C10_OneFilePerMissingKey ==
    [][\A t \in Registered :
          (FilesCallReturned(t) /\ t \notin DOMAIN tasks_output_files)
          => LET before == tasks_files[t]
                 after == tasks_files'[t]
                 added == SubSeq(after, Len(before) + 1, Len(after))
                 copied == {f \in Range(added) :
                               <<t, f.name>> \in {<<e[1], e[3]>> : e \in parent_inputs'}}
                 generated(link) == {f \in Range(added) \ copied : f.link = link}
                 held(link) == IF link = OUTPUT
                               THEN {f \in Range(before) : f.link = OUTPUT}
                               ELSE {f \in Range(before) : f.link = INPUT} \cup copied
                 rule(keys, link) ==
                     \A k \in 1..Len(keys) :
                         LET for == {f \in generated(link) : GeneratedFor(f.name, keys[k].ext)}
                         IN  IF \E f \in held(link) : GeneratedFor(f.name, keys[k].ext)
                             THEN for = {}
                             ELSE Cardinality(for) = 1
             IN  /\ SubSeq(after, 1, Len(before)) = before
                 /\ rule(OutputKeys(t), OUTPUT)
                 /\ rule(InputKeys(t), INPUT)
                 /\ Range(last'.ret) = held(OUTPUT) \cup generated(OUTPUT)]_vars

=============================================================================
